---- MODULE Spec2Model ----
(***************************************************************************)
(* lanarky/responses/streaming.py: StreamingResponse, the adapter that     *)
(* streams a langchain chain's callback events over an ASGI connection.    *)
(*                                                                         *)
(* Each response r is one StreamingResponse object built by from_chain and *)
(* served on its own connection: stream_response(send) runs as one         *)
(* coroutine, listen_for_disconnect(receive) as another.  A coroutine is   *)
(* cut into steps at its await points; the chain (langchain) and the       *)
(* callbacks (lanarky.callbacks) are collaborators whose choices are the   *)
(* nondeterministic inputs of the steps.                                   *)
(***************************************************************************)
EXTENDS Integers, Sequences, FiniteSets, TLC

VARIABLES
    args,       \* r -> the arguments from_chain was called with (history)
    thrown,     \* r -> the exception raised inside the executor, by the callback constructor or chain.acall (history)
    acall,      \* r -> the chain.acall calls the executor made, each with what it was given and how it ended
    self,       \* r -> the StreamingResponse object (status_code, raw_headers, background, chain_executor)
    pc,         \* r -> position of the stream_response coroutine
    callback,   \* r -> the callback object the executor built for its chain call
    invoked,    \* r -> the send handles the chain executor was invoked with, in order
    outcome,    \* r -> "pending" | "returned" | "raised": how the awaited executor ended
    outputs,    \* r -> the mapping the executor returned (local variable `outputs`)
    error,      \* r -> the exception the executor raised (local variable `e`)
    sent,       \* t -> the frames sent on transport t, in order
    sender,     \* t -> who sent each frame of sent[t] (history)
    log,        \* records emitted on the module-level logger
    lpc,        \* r -> position of the listen_for_disconnect coroutine
    inbox,      \* r -> messages the server has queued for receive()
    received,   \* r -> messages receive() has handed to the listener, in order
    stdout,     \* lines printed
    exitedAt    \* r -> number of frames on r's transport when its listener exited, -1 before (history)

vars == <<args, thrown, acall, self, pc, callback, invoked, outcome, outputs, error, sent, sender,
          log, lpc, inbox, received, stdout, exitedAt>>

streamVars == <<args, thrown, acall, self, pc, callback, invoked, outcome, outputs, error, sent, sender, log>>
listenVars == <<lpc, inbox, received, stdout, exitedAt>>

(***************************************************************************)
(* Bounds                                                                  *)
(***************************************************************************)
MaxPush == 2        \* frames one chain call pushes through its callback
MaxMsgs == 2        \* messages the server delivers to one listener

Resp == {1, 2}      \* response objects / connections
Tokens == {"a", "b"}

(***************************************************************************)
(* Python values                                                           *)
(***************************************************************************)
\* dict literals and dict.update
EmptyDict == [k \in {} |-> {}]

update(d, u) ==
    [k \in (DOMAIN d) \cup (DOMAIN u) |-> IF k \in DOMAIN u THEN u[k] ELSE d[k]]

\* mappings returned by chain.acall, as sets of <<key, value>> items
EmptyMapping == {}
Outputs == { {<<"response", "hi">>}, {<<"response", "bye">>} }

\* exception objects; ExceptionClasses are the classes derived from Exception,
\* BaseOnlyClasses derive from BaseException alone
ExceptionClasses == {"ValueError", "KeyError"}
BaseOnlyClasses == {"CancelledError"}
Raisable ==
    { [cls |-> "ValueError", msg |-> "boom"],
      [cls |-> "ValueError", msg |-> "bang"],
      [cls |-> "KeyError", msg |-> "boom"],
      [cls |-> "CancelledError", msg |-> ""] }
NoException == [cls |-> "", msg |-> ""]

isinstance_Exception(e) == e.cls \in ExceptionClasses

(***************************************************************************)
(* Frames                                                                  *)
(***************************************************************************)
\* ServerSentEvent(data=..., event=...) and its wire encoding, one record per
\* "name: value" line
ServerSentEvent(data, event) == [data |-> data, event |-> event]

ensure_bytes(chunk) ==
    (IF chunk.event = "" THEN <<>> ELSE <<[name |-> "event", value |-> chunk.event]>>)
    \o <<[name |-> "data", value |-> chunk.data]>>

ErrorData == "{'status_code': 500, 'detail': 'Internal Server Error'}"

ErrorChunk == ServerSentEvent(ErrorData, "error")

\* the start frame sent with the default status instead of self.status_code
StartFrameDefaultStatus(r) ==
    [type |-> "http.response.start",
     status |-> 200,
     headers |-> self[r].raw_headers]

StartFrame(r) ==
    [type |-> "http.response.start",
     status |-> self[r].status_code,
     headers |-> self[r].raw_headers]

\* the error event sent as the last body frame
ErrorFrameLast ==
    [type |-> "http.response.body", body |-> ensure_bytes(ErrorChunk), more_body |-> FALSE]

ErrorFrame ==
    [type |-> "http.response.body", body |-> ensure_bytes(ErrorChunk), more_body |-> TRUE]

\* the closing frame sent with more_body left True
TerminatorFrameMoreBody ==
    [type |-> "http.response.body", body |-> <<>>, more_body |-> TRUE]

TerminatorFrame ==
    [type |-> "http.response.body", body |-> <<>>, more_body |-> FALSE]

\* the send handle the server passes to stream_response of response r
Transport(r) == r

\* await send(frame), by `who`, on transport t
Send(t, frame, who) ==
    /\ sent' = [sent EXCEPT ![t] = Append(@, frame)]
    /\ sender' = [sender EXCEPT ![t] = Append(@, who)]

(***************************************************************************)
(* Callbacks (lanarky.callbacks): a callback constructor, bound to a send  *)
(* handle, yields a callback that forwards each token of the running chain *)
(* to that handle as one body frame with more_body = True.                 *)
(***************************************************************************)
NoCallback == [fn |-> "None", chain |-> ""]
CustomCallback == [fn |-> "custom_callback", chain |-> ""]
NotBuilt == [fn |-> "None", chain |-> "", send |-> 0, kwargs |-> EmptyDict]

partial(fn, chain) == [fn |-> fn, chain |-> chain]

JsonToken(tok) == IF tok = "a" THEN "{'token': 'a'}" ELSE "{'token': 'b'}"

CallbackData(cb, tok) ==
    IF cb.fn = "get_streaming_json_callback" THEN JsonToken(tok) ELSE tok

CallbackFrame(cb, tok) ==
    [type |-> "http.response.body",
     body |-> ensure_bytes(ServerSentEvent(CallbackData(cb, tok), "")),
     more_body |-> TRUE]

(***************************************************************************)
(* Construction                                                            *)
(***************************************************************************)
\* the default constructor is selected by the flag even when a callback is given
_create_chain_executor_by_flag(chain, inputs, as_json, cb, callback_kwargs) ==
    LET get_callback_fn ==
            IF as_json THEN "get_streaming_json_callback" ELSE "get_streaming_callback"
    IN  [chain |-> chain,
         inputs |-> inputs,
         callback |-> partial(get_callback_fn, chain),
         callback_kwargs |-> callback_kwargs]

\* StreamingResponse._create_chain_executor: the closure `wrapper`
_create_chain_executor(chain, inputs, as_json, cb, callback_kwargs) ==
    LET get_callback_fn ==
            IF as_json THEN "get_streaming_json_callback" ELSE "get_streaming_callback"
    IN  [chain |-> chain,
         inputs |-> inputs,
         callback |-> IF cb = NoCallback THEN partial(get_callback_fn, chain) ELSE cb,
         callback_kwargs |-> callback_kwargs]

\* StreamingResponse.__init__
__init__(chain_executor, background, status_code, raw_headers) ==
    [status_code |-> status_code,
     raw_headers |-> raw_headers,
     background |-> background,
     chain_executor |-> chain_executor]

\* StreamingResponse.from_chain
from_chain(chain, inputs, as_json, background, cb, callback_kwargs, status_code, raw_headers) ==
    __init__(_create_chain_executor(chain, inputs, as_json, cb, callback_kwargs),
             background, status_code, raw_headers)

\* starlette BackgroundTask(func, **kwargs), or None
None == [none |-> TRUE, kwargs |-> EmptyDict]
BackgroundTask(kwargs) == [none |-> FALSE, kwargs |-> kwargs]

Backgrounds ==
    { None,
      BackgroundTask([k \in {"user"} |-> "alice"]),
      BackgroundTask([k \in {"user", "outputs", "error"} |->
                        CASE k = "user" -> "bob"
                          [] k = "outputs" -> {<<"response", "stale">>}
                          [] OTHER -> [cls |-> "OldError", msg |-> "stale"]]) }

\* what each request is built from
ChainOf(r) == IF r = 1 THEN "chain1" ELSE "chain2"
InputsOf(r) == IF r = 1 THEN "question1" ELSE "question2"
StatusCodes == {200, 201}
StatusOf(r) == IF r = 1 THEN 200 ELSE 202
HeadersOf(r) ==
    <<[name |-> "content-type", value |-> "text/event-stream"],
      [name |-> "x-request", value |-> InputsOf(r)]>>

\* callback and callback_kwargs as a request passes them to from_chain
CallbackChoices ==
    { [callback |-> NoCallback, callback_kwargs |-> EmptyDict],
      [callback |-> NoCallback, callback_kwargs |-> [k \in {"verbose"} |-> "yes"]],
      [callback |-> CustomCallback, callback_kwargs |-> [k \in {"verbose"} |-> "yes"]] }

\* the arguments of one from_chain call
Request(r, as_json, background, cbc, status_code) ==
    [chain |-> ChainOf(r), inputs |-> InputsOf(r), as_json |-> as_json,
     background |-> background, callback |-> cbc.callback,
     callback_kwargs |-> cbc.callback_kwargs,
     status_code |-> status_code, raw_headers |-> HeadersOf(r)]

Response(a) ==
    from_chain(a.chain, a.inputs, a.as_json, a.background, a.callback,
               a.callback_kwargs, a.status_code, a.raw_headers)

(***************************************************************************)
(* Initial states                                                          *)
(***************************************************************************)
InitCommon ==
    /\ thrown = [r \in Resp |-> NoException]
    /\ acall = [r \in Resp |-> <<>>]
    /\ self = [r \in Resp |-> Response(args[r])]
    /\ callback = [r \in Resp |-> NotBuilt]
    /\ invoked = [r \in Resp |-> <<>>]
    /\ outcome = [r \in Resp |-> "pending"]
    /\ outputs = [r \in Resp |-> EmptyMapping]
    /\ error = [r \in Resp |-> NoException]
    /\ sent = [t \in Resp |-> <<>>]
    /\ sender = [t \in Resp |-> <<>>]
    /\ log = <<>>
    /\ inbox = [r \in Resp |-> <<>>]
    /\ received = [r \in Resp |-> <<>>]
    /\ stdout = <<>>
    /\ exitedAt = [r \in Resp |-> -1]

\* one request: response 1 is streaming with its disconnect listener
Init ==
    /\ \E as_json \in BOOLEAN, bg \in Backgrounds, cbc \in CallbackChoices,
          status_code \in StatusCodes :
          args = [r \in Resp |->
                    IF r = 1 THEN Request(r, as_json, bg, cbc, status_code)
                             ELSE Request(r, FALSE, None,
                                          [callback |-> NoCallback, callback_kwargs |-> EmptyDict],
                                          StatusOf(r))]
    /\ InitCommon
    /\ pc = [r \in Resp |-> IF r = 1 THEN "start" ELSE "unused"]
    /\ lpc = [r \in Resp |-> IF r = 1 THEN "listening" ELSE "unused"]

\* two requests streaming concurrently, each on its own connection
InitTwo ==
    /\ \E bg1 \in Backgrounds, bg2 \in Backgrounds :
          args = [r \in Resp |->
                    Request(r, r = 2, IF r = 1 THEN bg1 ELSE bg2,
                            [callback |-> NoCallback, callback_kwargs |-> EmptyDict],
                            StatusOf(r))]
    /\ InitCommon
    /\ pc = [r \in Resp |-> "start"]
    /\ lpc = [r \in Resp |-> "unused"]

(***************************************************************************)
(* stream_response(send)                                                   *)
(***************************************************************************)
\* await send({"type": "http.response.start", ...})
SendStart(r) ==
    /\ pc[r] = "start"
    /\ Send(Transport(r), StartFrame(r), [resp |-> r, role |-> "stream_response"])
    /\ pc' = [pc EXCEPT ![r] = "call"]
    /\ UNCHANGED <<self, callback, invoked, outcome, outputs, error, log, acall>>
    /\ UNCHANGED <<listenVars, args, thrown>>

\* the awaited chain.acall of response r ends, with a result or an exception
AcallEnds(r, state, result, raised) ==
    [acall EXCEPT ![r][Len(acall[r])] =
        [@ EXCEPT !.state = state, !.result = result, !.raised = raised]]

\* wrapper builds callback(send=send), leaving the keyword options out
CallExecutorWithoutKwargs(r) ==
    /\ pc[r] = "call"
    /\ invoked' = [invoked EXCEPT ![r] = Append(@, Transport(r))]
    /\ callback' = [callback EXCEPT ![r] =
                      [fn |-> self[r].chain_executor.callback.fn,
                       chain |-> self[r].chain_executor.callback.chain,
                       send |-> Transport(r),
                       kwargs |-> EmptyDict]]
    /\ acall' = [acall EXCEPT ![r] =
                    Append(@, [chain |-> self[r].chain_executor.chain,
                               inputs |-> self[r].chain_executor.inputs,
                               callbacks |-> <<callback'[r]>>,
                               tokens |-> <<>>,
                               state |-> "running",
                               result |-> EmptyMapping,
                               raised |-> NoException])]
    /\ pc' = [pc EXCEPT ![r] = "running"]
    /\ UNCHANGED <<self, outcome, outputs, error, sent, sender, log>>
    /\ UNCHANGED <<listenVars, args, thrown>>

\* self.chain_executor(send): wrapper builds callback(send=send, **callback_kwargs)
\* and enters chain.acall(inputs=inputs, callbacks=[that callback])
CallExecutor(r) ==
    /\ pc[r] = "call"
    /\ invoked' = [invoked EXCEPT ![r] = Append(@, Transport(r))]
    /\ callback' = [callback EXCEPT ![r] =
                      [fn |-> self[r].chain_executor.callback.fn,
                       chain |-> self[r].chain_executor.callback.chain,
                       send |-> Transport(r),
                       kwargs |-> self[r].chain_executor.callback_kwargs]]
    /\ acall' = [acall EXCEPT ![r] =
                    Append(@, [chain |-> self[r].chain_executor.chain,
                               inputs |-> self[r].chain_executor.inputs,
                               callbacks |-> <<callback'[r]>>,
                               tokens |-> <<>>,
                               state |-> "running",
                               result |-> EmptyMapping,
                               raised |-> NoException])]
    /\ pc' = [pc EXCEPT ![r] = "running"]
    /\ UNCHANGED <<self, outcome, outputs, error, sent, sender, log>>
    /\ UNCHANGED <<listenVars, args, thrown>>

\* self.chain_executor(send): callback(send=send, **callback_kwargs) raises e
\* inside wrapper, so chain.acall is never entered; stream_response's
\* `except Exception as e` takes e as it takes an exception of the chain call
CallbackRaises(r, e) ==
    /\ pc[r] = "call"
    /\ invoked' = [invoked EXCEPT ![r] = Append(@, Transport(r))]
    /\ thrown' = [thrown EXCEPT ![r] = e]
    /\ outcome' = [outcome EXCEPT ![r] = "raised"]
    /\ error' = [error EXCEPT ![r] = e]
    /\ IF isinstance_Exception(e)
       THEN /\ log' = Append(log, [level |-> "ERROR",
                                   message |-> <<"chain execution error: ", e.msg>>])
            /\ self' = IF self[r].background.none
                       THEN self
                       ELSE [self EXCEPT ![r].background.kwargs =
                                update(@, [k \in {"outputs", "error"} |->
                                             IF k = "outputs" THEN EmptyMapping ELSE e])]
            /\ pc' = [pc EXCEPT ![r] = "error"]
       ELSE /\ pc' = [pc EXCEPT ![r] = "escaped"]
            /\ UNCHANGED <<self, log>>
    /\ UNCHANGED <<callback, acall, outputs, sent, sender>>
    /\ UNCHANGED <<listenVars, args>>

\* while the chain call is awaited, the callback pushes a token to its send handle
CallbackPush(r, tok) ==
    /\ pc[r] = "running"
    /\ Len(SelectSeq(sender[callback[r].send],
                     LAMBDA w : w = [resp |-> r, role |-> "callback"])) < MaxPush
    /\ Send(callback[r].send, CallbackFrame(callback[r], tok),
            [resp |-> r, role |-> "callback"])
    /\ acall' = [acall EXCEPT ![r][Len(acall[r])].tokens = Append(@, tok)]
    /\ UNCHANGED <<self, pc, callback, invoked, outcome, outputs, error, log>>
    /\ UNCHANGED <<listenVars, args, thrown>>

\* the background task's keyword arguments are replaced by {"outputs": outputs}
ExecutorReturnsReplacesKwargs(r, outs) ==
    /\ pc[r] = "running"
    /\ acall' = AcallEnds(r, "returned", outs, NoException)
    /\ outcome' = [outcome EXCEPT ![r] = "returned"]
    /\ outputs' = [outputs EXCEPT ![r] = outs]
    /\ self' = IF self[r].background.none
               THEN self
               ELSE [self EXCEPT ![r].background.kwargs = [k \in {"outputs"} |-> outs]]
    /\ pc' = [pc EXCEPT ![r] = "finish"]
    /\ UNCHANGED <<callback, invoked, error, sent, sender, log>>
    /\ UNCHANGED <<listenVars, args, thrown>>

\* the executor returns and the background task is left as it was
ExecutorReturnsNoUpdate(r, outs) ==
    /\ pc[r] = "running"
    /\ acall' = AcallEnds(r, "returned", outs, NoException)
    /\ outcome' = [outcome EXCEPT ![r] = "returned"]
    /\ outputs' = [outputs EXCEPT ![r] = outs]
    /\ pc' = [pc EXCEPT ![r] = "finish"]
    /\ UNCHANGED <<self, callback, invoked, error, sent, sender, log>>
    /\ UNCHANGED <<listenVars, args, thrown>>

\* outputs = await self.chain_executor(send) returns;
\* if self.background is not None: self.background.kwargs.update({"outputs": outputs})
ExecutorReturns(r, outs) ==
    /\ pc[r] = "running"
    /\ acall' = AcallEnds(r, "returned", outs, NoException)
    /\ outcome' = [outcome EXCEPT ![r] = "returned"]
    /\ outputs' = [outputs EXCEPT ![r] = outs]
    /\ self' = IF self[r].background.none
               THEN self
               ELSE [self EXCEPT ![r].background.kwargs =
                        update(@, [k \in {"outputs"} |-> outs])]
    /\ pc' = [pc EXCEPT ![r] = "finish"]
    /\ UNCHANGED <<callback, invoked, error, sent, sender, log>>
    /\ UNCHANGED <<listenVars, args, thrown>>

\* on a failure the body frames already on the transport are discarded
ExecutorRaisesDropsPushed(r, e) ==
    /\ pc[r] = "running"
    /\ acall' = AcallEnds(r, "raised", EmptyMapping, e)
    /\ thrown' = [thrown EXCEPT ![r] = e]
    /\ outcome' = [outcome EXCEPT ![r] = "raised"]
    /\ error' = [error EXCEPT ![r] = e]
    /\ sent' = [sent EXCEPT ![Transport(r)] = SubSeq(@, 1, 1)]
    /\ sender' = [sender EXCEPT ![Transport(r)] = SubSeq(@, 1, 1)]
    /\ IF isinstance_Exception(e)
       THEN /\ log' = Append(log, [level |-> "ERROR",
                                   message |-> <<"chain execution error: ", e.msg>>])
            /\ self' = IF self[r].background.none
                       THEN self
                       ELSE [self EXCEPT ![r].background.kwargs =
                                update(@, [k \in {"outputs", "error"} |->
                                             IF k = "outputs" THEN EmptyMapping ELSE e])]
            /\ pc' = [pc EXCEPT ![r] = "error"]
       ELSE /\ pc' = [pc EXCEPT ![r] = "escaped"]
            /\ UNCHANGED <<self, log>>
    /\ UNCHANGED <<callback, invoked, outputs>>
    /\ UNCHANGED <<listenVars, args>>

\* wrapper catches the exception of the chain call and returns an empty mapping
ExecutorRaisesSwallowed(r, e) ==
    /\ pc[r] = "running"
    /\ acall' = AcallEnds(r, "raised", EmptyMapping, e)
    /\ thrown' = [thrown EXCEPT ![r] = e]
    /\ outcome' = [outcome EXCEPT ![r] = "returned"]
    /\ outputs' = [outputs EXCEPT ![r] = EmptyMapping]
    /\ self' = IF self[r].background.none
               THEN self
               ELSE [self EXCEPT ![r].background.kwargs =
                        update(@, [k \in {"outputs"} |-> EmptyMapping])]
    /\ pc' = [pc EXCEPT ![r] = "finish"]
    /\ UNCHANGED <<callback, invoked, error, sent, sender, log>>
    /\ UNCHANGED <<listenVars, args>>

\* a first failure of the chain call sends stream_response back to call the
\* executor once more
ExecutorRaisesRetry(r, e) ==
    /\ pc[r] = "running"
    /\ acall' = AcallEnds(r, "raised", EmptyMapping, e)
    /\ thrown' = [thrown EXCEPT ![r] = e]
    /\ IF Len(invoked[r]) < 2
       THEN /\ pc' = [pc EXCEPT ![r] = "call"]
            /\ UNCHANGED <<outcome, error, self, log>>
       ELSE /\ outcome' = [outcome EXCEPT ![r] = "raised"]
            /\ error' = [error EXCEPT ![r] = e]
            /\ IF isinstance_Exception(e)
               THEN /\ log' = Append(log, [level |-> "ERROR",
                                           message |-> <<"chain execution error: ", e.msg>>])
                    /\ self' = IF self[r].background.none
                               THEN self
                               ELSE [self EXCEPT ![r].background.kwargs =
                                        update(@, [k \in {"outputs", "error"} |->
                                                     IF k = "outputs" THEN EmptyMapping ELSE e])]
                    /\ pc' = [pc EXCEPT ![r] = "error"]
               ELSE /\ pc' = [pc EXCEPT ![r] = "escaped"]
                    /\ UNCHANGED <<self, log>>
    /\ UNCHANGED <<callback, invoked, outputs, sent, sender>>
    /\ UNCHANGED <<listenVars, args>>

\* the except block updates the background task with {"outputs": {}} alone
ExecutorRaisesNoError(r, e) ==
    /\ pc[r] = "running"
    /\ acall' = AcallEnds(r, "raised", EmptyMapping, e)
    /\ thrown' = [thrown EXCEPT ![r] = e]
    /\ outcome' = [outcome EXCEPT ![r] = "raised"]
    /\ error' = [error EXCEPT ![r] = e]
    /\ IF isinstance_Exception(e)
       THEN /\ log' = Append(log, [level |-> "ERROR",
                                   message |-> <<"chain execution error: ", e.msg>>])
            /\ self' = IF self[r].background.none
                       THEN self
                       ELSE [self EXCEPT ![r].background.kwargs =
                                update(@, [k \in {"outputs"} |-> EmptyMapping])]
            /\ pc' = [pc EXCEPT ![r] = "error"]
       ELSE /\ pc' = [pc EXCEPT ![r] = "escaped"]
            /\ UNCHANGED <<self, log>>
    /\ UNCHANGED <<callback, invoked, outputs, sent, sender>>
    /\ UNCHANGED <<listenVars, args>>

\* the awaited executor raises e.  `except Exception as e` takes instances of
\* Exception: logger.error, background.kwargs.update({"outputs": {}, "error": e}),
\* then the error event is built and about to be sent.  Any other exception
\* leaves stream_response.
ExecutorRaises(r, e) ==
    /\ pc[r] = "running"
    /\ acall' = AcallEnds(r, "raised", EmptyMapping, e)
    /\ thrown' = [thrown EXCEPT ![r] = e]
    /\ outcome' = [outcome EXCEPT ![r] = "raised"]
    /\ error' = [error EXCEPT ![r] = e]
    /\ IF isinstance_Exception(e)
       THEN /\ log' = Append(log, [level |-> "ERROR",
                                   message |-> <<"chain execution error: ", e.msg>>])
            /\ self' = IF self[r].background.none
                       THEN self
                       ELSE [self EXCEPT ![r].background.kwargs =
                                update(@, [k \in {"outputs", "error"} |->
                                             IF k = "outputs" THEN EmptyMapping ELSE e])]
            /\ pc' = [pc EXCEPT ![r] = "error"]
       ELSE /\ pc' = [pc EXCEPT ![r] = "escaped"]
            /\ UNCHANGED <<self, log>>
    /\ UNCHANGED <<callback, invoked, outputs, sent, sender>>
    /\ UNCHANGED <<listenVars, args>>

\* the except block ends with `raise`: the error event is sent and the
\* exception leaves stream_response
SendErrorEventReraises(r) ==
    /\ pc[r] = "error"
    /\ Send(Transport(r), ErrorFrame, [resp |-> r, role |-> "stream_response"])
    /\ pc' = [pc EXCEPT ![r] = "escaped"]
    /\ UNCHANGED <<self, callback, invoked, outcome, outputs, error, log, acall>>
    /\ UNCHANGED <<listenVars, args, thrown>>

\* the error event carries str(e) as its detail
SendErrorEventLeaks(r) ==
    /\ pc[r] = "error"
    /\ Send(Transport(r),
            [type |-> "http.response.body",
             body |-> ensure_bytes(ServerSentEvent(error[r].msg, "error")),
             more_body |-> TRUE],
            [resp |-> r, role |-> "stream_response"])
    /\ pc' = [pc EXCEPT ![r] = "finish"]
    /\ UNCHANGED <<self, callback, invoked, outcome, outputs, error, log, acall>>
    /\ UNCHANGED <<listenVars, args, thrown>>

\* the error event is sent on every connection
SendErrorEventBroadcast(r) ==
    /\ pc[r] = "error"
    /\ sent' = [t \in Resp |-> Append(sent[t], ErrorFrame)]
    /\ sender' = [t \in Resp |-> Append(sender[t], [resp |-> r, role |-> "stream_response"])]
    /\ pc' = [pc EXCEPT ![r] = "finish"]
    /\ UNCHANGED <<self, callback, invoked, outcome, outputs, error, log, acall>>
    /\ UNCHANGED <<listenVars, args, thrown>>

\* await send({"type": "http.response.body", "body": ensure_bytes(chunk, None), "more_body": True})
SendErrorEvent(r) ==
    /\ pc[r] = "error"
    /\ Send(Transport(r), ErrorFrame, [resp |-> r, role |-> "stream_response"])
    /\ pc' = [pc EXCEPT ![r] = "finish"]
    /\ UNCHANGED <<self, callback, invoked, outcome, outputs, error, log, acall>>
    /\ UNCHANGED <<listenVars, args, thrown>>

\* the closing frame sent at the end of the try block, so only after a return
SendTerminatorInTry(r) ==
    /\ pc[r] = "finish"
    /\ IF outcome[r] = "returned"
       THEN Send(Transport(r), TerminatorFrame, [resp |-> r, role |-> "stream_response"])
       ELSE UNCHANGED <<sent, sender>>
    /\ pc' = [pc EXCEPT ![r] = "done"]
    /\ UNCHANGED <<self, callback, invoked, outcome, outputs, error, log, acall>>
    /\ UNCHANGED <<listenVars, args, thrown>>

\* await send({"type": "http.response.body", "body": b"", "more_body": False})
SendTerminator(r) ==
    /\ pc[r] = "finish"
    /\ Send(Transport(r), TerminatorFrame, [resp |-> r, role |-> "stream_response"])
    /\ pc' = [pc EXCEPT ![r] = "done"]
    /\ UNCHANGED <<self, callback, invoked, outcome, outputs, error, log, acall>>
    /\ UNCHANGED <<listenVars, args, thrown>>

(***************************************************************************)
(* listen_for_disconnect(receive)                                          *)
(***************************************************************************)
MessageTypes == {"http.request", "http.disconnect"}

\* the server queues a message for receive()
Deliver(r, type) ==
    /\ lpc[r] # "unused"
    /\ Len(received[r]) + Len(inbox[r]) < MaxMsgs
    /\ inbox' = [inbox EXCEPT ![r] = Append(@, [type |-> type])]
    /\ UNCHANGED <<lpc, received, stdout, exitedAt>>
    /\ UNCHANGED streamVars

\* the loop breaks after the first message, whatever its type
ReceiveBreakAlways(r) ==
    /\ lpc[r] = "listening"
    /\ inbox[r] # <<>>
    /\ LET message == Head(inbox[r])
       IN  /\ inbox' = [inbox EXCEPT ![r] = Tail(@)]
           /\ received' = [received EXCEPT ![r] = Append(@, message)]
           /\ stdout' = IF message.type = "http.disconnect"
                        THEN Append(stdout, "Client disconnected") ELSE stdout
           /\ lpc' = [lpc EXCEPT ![r] = "exited"]
           /\ exitedAt' = [exitedAt EXCEPT ![r] = Len(sent[Transport(r)])]
    /\ UNCHANGED streamVars

\* on disconnect the listener cancels a stream_response that awaits its executor
ReceiveCancels(r) ==
    /\ lpc[r] = "listening"
    /\ inbox[r] # <<>>
    /\ LET message == Head(inbox[r])
       IN  /\ inbox' = [inbox EXCEPT ![r] = Tail(@)]
           /\ received' = [received EXCEPT ![r] = Append(@, message)]
           /\ IF message.type = "http.disconnect"
              THEN /\ stdout' = Append(stdout, "Client disconnected")
                   /\ lpc' = [lpc EXCEPT ![r] = "exited"]
                   /\ exitedAt' = [exitedAt EXCEPT ![r] = Len(sent[Transport(r)])]
                   /\ pc' = [pc EXCEPT ![r] = IF @ = "running" THEN "escaped" ELSE @]
              ELSE UNCHANGED <<stdout, lpc, exitedAt, pc>>
    /\ UNCHANGED <<args, thrown, acall, self, callback, invoked, outcome, outputs, error, sent, sender, log>>

\* message = await receive(); if message["type"] == "http.disconnect": print; break
Receive(r) ==
    /\ lpc[r] = "listening"
    /\ inbox[r] # <<>>
    /\ LET message == Head(inbox[r])
       IN  /\ inbox' = [inbox EXCEPT ![r] = Tail(@)]
           /\ received' = [received EXCEPT ![r] = Append(@, message)]
           /\ IF message.type = "http.disconnect"
              THEN /\ stdout' = Append(stdout, "Client disconnected")
                   /\ lpc' = [lpc EXCEPT ![r] = "exited"]
                   /\ exitedAt' = [exitedAt EXCEPT ![r] = Len(sent[Transport(r)])]
              ELSE UNCHANGED <<stdout, lpc, exitedAt>>
    /\ UNCHANGED streamVars

(***************************************************************************)
(* Specifications                                                          *)
(***************************************************************************)
Stream ==
    \/ \E r \in Resp : SendStart(r)
    \/ \E r \in Resp : CallExecutor(r)
    \/ \E r \in Resp, e \in Raisable : CallbackRaises(r, e)
    \/ \E r \in Resp, tok \in Tokens : CallbackPush(r, tok)
    \/ \E r \in Resp, outs \in Outputs : ExecutorReturns(r, outs)
    \/ \E r \in Resp, e \in Raisable : ExecutorRaises(r, e)
    \/ \E r \in Resp : SendErrorEvent(r)
    \/ \E r \in Resp : SendTerminator(r)

Listen ==
    \/ \E r \in Resp, type \in MessageTypes : Deliver(r, type)
    \/ \E r \in Resp : Receive(r)

Next == Stream \/ Listen

\* one response and its disconnect listener
Spec == Init /\ [][Next]_vars

\* the same, with the event loop running a listener whose receive() has a message
FairSpec == Spec /\ \A r \in Resp : WF_vars(Receive(r))

\* two responses streaming concurrently
SpecTwo == InitTwo /\ [][Stream]_vars

(***************************************************************************)
(* Properties                                                              *)
(***************************************************************************)
Live == {r \in Resp : pc[r] # "unused"}

\* the stream_response call has ended: it returned, or an exception left it
Returned(r) == pc[r] = "done"
Escaped(r) == pc[r] = "escaped"
Finished(r) == Returned(r) \/ Escaped(r)

Frames(r) == sent[Transport(r)]
Senders(r) == sender[Transport(r)]
Kwargs(r) == self[r].background.kwargs

IsStart(f) == f.type = "http.response.start"
IsBody(f) == f.type = "http.response.body"
IsTerminator(f) == IsBody(f) /\ f.body = <<>> /\ f.more_body = FALSE
IsErrorEvent(f) ==
    /\ IsBody(f)
    /\ f.body = <<[name |-> "event", value |-> "error"],
                  [name |-> "data",
                   value |-> "{'status_code': 500, 'detail': 'Internal Server Error'}"]>>
IsErrorEventFrame(f) == IsErrorEvent(f) /\ f.more_body = TRUE

Count(seq, P(_)) == Len(SelectSeq(seq, P))

ByResponse(r) == [resp |-> r, role |-> "stream_response"]
ByCallback(r) == [resp |-> r, role |-> "callback"]

RECURSIVE Pick(_, _, _)
Pick(frames, who, w) ==
    IF frames = <<>> THEN <<>>
    ELSE (IF Head(who) = w THEN <<Head(frames)>> ELSE <<>>)
         \o Pick(Tail(frames), Tail(who), w)

\* the frames stream_response itself sent, and those its callback pushed
OwnFrames(r) == Pick(Frames(r), Senders(r), ByResponse(r))
PushedFrames(r) == Pick(Frames(r), Senders(r), ByCallback(r))

RaisedException(r) == outcome[r] = "raised" /\ isinstance_Exception(error[r])
RaisedOther(r) == outcome[r] = "raised" /\ ~isinstance_Exception(error[r])

\* C1 (as stated): every stream_response call that has ended, whether its
\* executor returned or raised, has sent exactly one terminating frame (body
\* frame, empty body, more_body = False).
C1_OneTerminatorPerCall ==
    \A r \in Live : Finished(r) => Count(Frames(r), IsTerminator) = 1

\* C1 (amended): a call whose executor returned or raised an instance of
\* Exception ends by returning with exactly one terminating frame sent, as its
\* last frame; a call whose executor raised any other exception ends with that
\* exception and no terminating frame; no call ever sends two.
C1_OneTerminatorUnlessEscaped ==
    \A r \in Live :
        /\ Count(Frames(r), IsTerminator) <= 1
        /\ Returned(r) <=> Count(Frames(r), IsTerminator) = 1
        /\ Returned(r) => IsTerminator(Frames(r)[Len(Frames(r))])
        /\ Finished(r) /\ (outcome[r] = "returned" \/ RaisedException(r)) => Returned(r)
        /\ Finished(r) /\ RaisedOther(r) => Escaped(r) /\ Count(Frames(r), IsTerminator) = 0

C1_Witness ==
    \E r \in Live : Returned(r) /\ RaisedException(r) /\ Count(Frames(r), IsTerminator) = 1

\* C2: once a call whose executor returned has ended, the frames on its
\* transport are one start frame, then only body frames with more_body = True
\* pushed by the callback, then one terminating frame; stream_response itself
\* sent the start and the terminator and nothing else, so with no pushed frame
\* the sequence is start, terminator.
C2_SuccessSequence ==
    \A r \in Live :
        Finished(r) /\ outcome[r] = "returned" =>
            LET f == Frames(r)
                n == Len(Frames(r))
            IN  /\ n >= 2
                /\ IsStart(f[1]) /\ Senders(r)[1] = ByResponse(r)
                /\ IsTerminator(f[n]) /\ Senders(r)[n] = ByResponse(r)
                /\ \A i \in 2..(n - 1) :
                      /\ IsBody(f[i]) /\ f[i].more_body = TRUE
                      /\ Senders(r)[i] = ByCallback(r)
                /\ Count(f, IsStart) = 1
                /\ Count(f, IsTerminator) = 1
                /\ Count(f, IsErrorEvent) = 0
                /\ Len(OwnFrames(r)) = 2
                /\ (PushedFrames(r) = <<>> => n = 2)

C2_Witness ==
    \E r \in Live :
        /\ Finished(r) /\ outcome[r] = "returned"
        /\ Len(Frames(r)) = 2 + MaxPush
        /\ Len(PushedFrames(r)) = MaxPush

\* C3 (as stated): once a call whose executor raised has ended, the frames on
\* its transport end with one error event frame (event "error", status_code 500,
\* detail "Internal Server Error", more_body = True) immediately followed by the
\* terminating frame, and the error event occurs once.
C3_ErrorThenTerminator ==
    \A r \in Live :
        Finished(r) /\ outcome[r] = "raised" =>
            LET f == Frames(r)
                n == Len(Frames(r))
            IN  /\ n >= 3
                /\ IsErrorEventFrame(f[n - 1])
                /\ IsTerminator(f[n])
                /\ Count(f, IsErrorEvent) = 1
                /\ Count(f, IsTerminator) = 1

\* C3 (amended): the same for an executor that raised an instance of Exception,
\* both frames being sent by stream_response itself; when the executor raised
\* any other exception, neither an error event nor a terminating frame is sent.
C3_ErrorThenTerminatorForException ==
    \A r \in Live :
        LET f == Frames(r)
            n == Len(Frames(r))
        IN  /\ Finished(r) /\ RaisedException(r) =>
                /\ n >= 3
                /\ IsErrorEventFrame(f[n - 1]) /\ Senders(r)[n - 1] = ByResponse(r)
                /\ IsTerminator(f[n]) /\ Senders(r)[n] = ByResponse(r)
                /\ Count(f, IsErrorEvent) = 1
                /\ Count(f, IsTerminator) = 1
            /\ Finished(r) /\ RaisedOther(r) =>
                /\ Count(f, IsErrorEvent) = 0
                /\ Count(f, IsTerminator) = 0
            /\ Count(f, IsErrorEvent) <= 1
            /\ Count(f, IsErrorEvent) = 1 => RaisedException(r)

C3_Witness ==
    \E r \in Live :
        /\ Finished(r) /\ RaisedException(r)
        /\ Len(Frames(r)) = 3 + MaxPush
        /\ IsErrorEventFrame(Frames(r)[2 + MaxPush])

\* C4: with a background task, once the executor has returned the task's
\* keyword arguments hold `outputs` equal to the returned mapping, already
\* while the terminating frame is still to be sent, and still after the call
\* has ended.
C4_OutputsOnSuccess ==
    \A r \in Live :
        ~self[r].background.none /\ outcome[r] = "returned" =>
            /\ "outputs" \in DOMAIN Kwargs(r)
            /\ Kwargs(r)["outputs"] = outputs[r]
            /\ pc[r] \in {"finish", "done"}
            /\ pc[r] = "finish" => Count(Frames(r), IsTerminator) = 0

C4_Witness ==
    \E r \in Live :
        /\ ~self[r].background.none /\ outcome[r] = "returned" /\ Returned(r)
        /\ Kwargs(r)["outputs"] = {<<"response", "hi">>}
        /\ Kwargs(r)["user"] = "bob"

\* C5 (as stated): with a background task, once a call whose executor raised
\* has ended, the task's keyword arguments hold `outputs` equal to the empty
\* mapping and `error` equal to the raised exception.
C5_ErrorOnFailure ==
    \A r \in Live :
        ~self[r].background.none /\ outcome[r] = "raised" /\ Finished(r) =>
            /\ "outputs" \in DOMAIN Kwargs(r) /\ Kwargs(r)["outputs"] = {}
            /\ "error" \in DOMAIN Kwargs(r) /\ Kwargs(r)["error"] = error[r]

\* C5 (amended): the same for an executor that raised an instance of
\* Exception, from the moment the exception is caught; after any other
\* exception the background task is as it was built.
C5_ErrorOnFailureForException ==
    \A r \in Live :
        /\ ~self[r].background.none /\ RaisedException(r) =>
              /\ "outputs" \in DOMAIN Kwargs(r) /\ Kwargs(r)["outputs"] = {}
              /\ "error" \in DOMAIN Kwargs(r) /\ Kwargs(r)["error"] = error[r]
              /\ pc[r] \in {"error", "finish", "done"}
        /\ RaisedOther(r) => self[r].background \in Backgrounds

C5_Witness ==
    \E r \in Live :
        /\ ~self[r].background.none /\ RaisedException(r) /\ Returned(r)
        /\ Kwargs(r)["error"] = [cls |-> "KeyError", msg |-> "boom"]
        /\ Kwargs(r)["outputs"] = {}

\* C6 (as stated): two calls that have ended and whose executors both raised,
\* whatever the exceptions, have sent the same frames of their own after the
\* start frame.
C6_SameFramesForAnyRaise ==
    \A r1 \in Live, r2 \in Live :
        /\ Finished(r1) /\ outcome[r1] = "raised"
        /\ Finished(r2) /\ outcome[r2] = "raised"
        => Tail(OwnFrames(r1)) = Tail(OwnFrames(r2))

\* C6 (amended): two calls that have ended and whose executors raised
\* instances of Exception, of whatever class and message, have sent the same
\* frames of their own after the start frame: the generic error event and the
\* terminating frame; the exception itself is in the log record and in the
\* background task's `error` only.
C6_SameFramesForAnyException ==
    \A r1 \in Live, r2 \in Live :
        /\ Finished(r1) /\ RaisedException(r1)
        /\ Finished(r2) /\ RaisedException(r2)
        => /\ Tail(OwnFrames(r1)) = Tail(OwnFrames(r2))
           /\ Len(OwnFrames(r1)) = 3
           /\ IsErrorEventFrame(OwnFrames(r1)[2])
           /\ IsTerminator(OwnFrames(r1)[3])
           /\ \E i \in 1..Len(log) :
                 log[i] = [level |-> "ERROR",
                           message |-> <<"chain execution error: ", error[r1].msg>>]
           /\ ~self[r1].background.none => Kwargs(r1)["error"] = error[r1]
           /\ \A t \in Resp : \A i \in 1..Len(sent[t]) :
                 IsBody(sent[t][i]) =>
                    \A j \in 1..Len(sent[t][i].body) :
                       sent[t][i].body[j].value \notin {error[r1].msg, error[r1].cls}

C6_Witness ==
    /\ Finished(1) /\ RaisedException(1)
    /\ Finished(2) /\ RaisedException(2)
    /\ error[1].cls # error[2].cls
    /\ error[1].msg # error[2].msg
    /\ Tail(OwnFrames(1)) = Tail(OwnFrames(2))

\* C7: the start frame is the first frame on the transport, sent by
\* stream_response before its executor is invoked and only once, with the
\* response's status_code and raw_headers; nothing, an executor failure
\* included, changes or repeats it.
C7_StartFrameFirst ==
    \A r \in Live :
        /\ pc[r] = "start" => Frames(r) = <<>> /\ invoked[r] = <<>>
        /\ pc[r] # "start" =>
              /\ Len(Frames(r)) >= 1
              /\ Frames(r)[1] = [type |-> "http.response.start",
                                 status |-> self[r].status_code,
                                 headers |-> self[r].raw_headers]
              /\ Senders(r)[1] = ByResponse(r)
              /\ Count(Frames(r), IsStart) = 1
        /\ pc[r] = "call" => Len(Frames(r)) = 1 /\ invoked[r] = <<>>

C7_Witness ==
    \E r \in Live :
        /\ Returned(r) /\ RaisedException(r)
        /\ self[r].status_code = 201
        /\ Frames(r)[1].status = 201
        /\ Count(Frames(r), IsErrorEvent) = 1
        /\ Len(PushedFrames(r)) > 0

IsDisconnect(m) == m.type = "http.disconnect"

\* C8: the listener takes every queued message while it listens, stays
\* listening through every message that is not http.disconnect, and exits at
\* the first http.disconnect and not before; a listener step sends no frame and
\* touches nothing of stream_response; a queued http.disconnect leads to the
\* listener's exit.
C8_ListenerExitsAtFirstDisconnect ==
    /\ [](\A r \in Resp :
            lpc[r] # "unused" =>
              /\ lpc[r] \in {"listening", "exited"}
              /\ lpc[r] = "exited" <=>
                    (received[r] # <<>> /\ IsDisconnect(received[r][Len(received[r])]))
              /\ \A i \in 1..(Len(received[r]) - 1) : ~IsDisconnect(received[r][i])
              /\ lpc[r] = "listening" /\ inbox[r] # <<>> => ENABLED Receive(r)
              /\ lpc[r] = "exited" => ~ENABLED Receive(r))
    /\ [][\A r \in Resp :
            received'[r] # received[r] =>
              /\ received'[r] = Append(received[r], Head(inbox[r]))
              /\ UNCHANGED streamVars]_vars
    /\ \A r \in Resp :
          (lpc[r] = "listening" /\ Count(inbox[r], IsDisconnect) > 0) ~> (lpc[r] = "exited")

C8_Witness ==
    \E r \in Resp :
        /\ lpc[r] = "exited"
        /\ Len(received[r]) = MaxMsgs
        /\ ~IsDisconnect(received[r][1])
        /\ stdout = <<"Client disconnected">>

\* C9: after the listener has seen the disconnect, stream_response goes on as
\* before: each of its steps stays enabled, the callback can still push, only
\* an exception of the executor itself can end the call early, and a call that
\* returns has updated the background task and sent the terminating frame; the
\* listener's exit changes nothing of stream_response.
C9_DisconnectDoesNotInterrupt ==
    /\ [](\A r \in Live :
            lpc[r] = "exited" =>
              /\ pc[r] = "start" => ENABLED SendStart(r)
              /\ pc[r] = "call" => ENABLED CallExecutor(r)
              /\ pc[r] = "running" =>
                    /\ \A outs \in Outputs : ENABLED ExecutorReturns(r, outs)
                    /\ \A e \in Raisable : ENABLED ExecutorRaises(r, e)
                    /\ Len(PushedFrames(r)) < MaxPush =>
                          \A tok \in Tokens : ENABLED CallbackPush(r, tok)
              /\ pc[r] = "error" => ENABLED SendErrorEvent(r)
              /\ pc[r] = "finish" => ENABLED SendTerminator(r)
              /\ Escaped(r) => RaisedOther(r)
              /\ Returned(r) =>
                    /\ IsTerminator(Frames(r)[Len(Frames(r))])
                    /\ ~self[r].background.none =>
                          /\ "outputs" \in DOMAIN Kwargs(r)
                          /\ outcome[r] = "returned" => Kwargs(r)["outputs"] = outputs[r]
                          /\ outcome[r] = "raised" => Kwargs(r)["error"] = error[r])
    /\ [][\A r \in Live : lpc'[r] # lpc[r] => UNCHANGED streamVars]_vars

\* the disconnect was seen after the first pushed frame; the call then went on
\* to push again, return, update the background task and send the terminator
C9_Witness ==
    \E r \in Live :
        /\ exitedAt[r] = 2
        /\ Returned(r) /\ outcome[r] = "returned"
        /\ Len(PushedFrames(r)) = MaxPush
        /\ ~self[r].background.none
        /\ Kwargs(r)["outputs"] = outputs[r]
        /\ IsTerminator(Frames(r)[Len(Frames(r))])

\* C10: with two responses streaming concurrently, every frame on a transport
\* was sent by that transport's own response or its own callback; an error
\* event is on a transport only if its own executor raised; a background
\* task's keywords hold its own executor's outputs or error and change only
\* when its own executor ends.
C10_Isolation ==
    /\ [](\A r \in Live :
            /\ \A i \in 1..Len(Frames(r)) : Senders(r)[i].resp = r
            /\ callback[r] # NotBuilt => callback[r].send = Transport(r)
            /\ Count(Frames(r), IsStart) <= 1
            /\ Count(Frames(r), IsTerminator) <= 1
            /\ Count(Frames(r), IsErrorEvent) <= 1
            /\ Count(Frames(r), IsErrorEvent) = 1 => RaisedException(r)
            /\ pc[r] # "start" => Frames(r)[1].status = self[r].status_code
            /\ ~self[r].background.none =>
                  /\ outcome[r] = "returned" =>
                        "outputs" \in DOMAIN Kwargs(r) /\ Kwargs(r)["outputs"] = outputs[r]
                  /\ RaisedException(r) =>
                        "error" \in DOMAIN Kwargs(r) /\ Kwargs(r)["error"] = error[r])
    /\ [][\A r \in Live :
            /\ self'[r] # self[r] =>
                  pc[r] \in {"call", "running"} /\ pc'[r] \in {"finish", "error"}
            /\ sent'[Transport(r)] # sent[Transport(r)] =>
                  /\ pc[r] \in {"start", "running", "error", "finish"}
                  /\ \A x \in Live \ {r} : pc'[x] = pc[x] /\ outcome'[x] = outcome[x]]_vars

C10_Witness ==
    /\ Returned(1) /\ RaisedException(1)
    /\ Returned(2) /\ outcome[2] = "returned"
    /\ ~self[1].background.none /\ ~self[2].background.none
    /\ Count(Frames(1), IsErrorEvent) = 1
    /\ Count(Frames(2), IsErrorEvent) = 0
    /\ Kwargs(1)["error"] = error[1]
    /\ Kwargs(2)["outputs"] = outputs[2]
    /\ "error" \notin DOMAIN Kwargs(2)

\* C11 (as stated): the executor is invoked once per call, with the send
\* handle stream_response was given, however it ends; once a call whose
\* executor raised has ended, the executor was invoked that one time only and
\* the frames end with the single error event and the terminating frame.
C11_NoRetry ==
    \A r \in Live :
        /\ pc[r] \in {"start", "call"} => invoked[r] = <<>>
        /\ pc[r] \notin {"start", "call"} => invoked[r] = <<Transport(r)>>
        /\ Finished(r) /\ outcome[r] = "raised" =>
              /\ Count(Frames(r), IsErrorEvent) = 1
              /\ Len(Frames(r)) >= 3
              /\ IsErrorEventFrame(Frames(r)[Len(Frames(r)) - 1])
              /\ IsTerminator(Frames(r)[Len(Frames(r))])

\* C11 (amended): the executor is invoked once per call, with the send handle
\* stream_response was given, and enters chain.acall at most once, however it
\* ends; once a call whose executor raised an instance of Exception has ended,
\* the frames end with the single error event and the terminating frame; after
\* any other exception the call ends with no error event, and still without a
\* second invocation.
C11_NoRetryForException ==
    \A r \in Live :
        /\ pc[r] \in {"start", "call"} => invoked[r] = <<>>
        /\ pc[r] \notin {"start", "call"} => invoked[r] = <<Transport(r)>>
        /\ Len(acall[r]) <= 1
        /\ Finished(r) /\ RaisedException(r) =>
              /\ Count(Frames(r), IsErrorEvent) = 1
              /\ Len(Frames(r)) >= 3
              /\ IsErrorEventFrame(Frames(r)[Len(Frames(r)) - 1])
              /\ IsTerminator(Frames(r)[Len(Frames(r))])
        /\ Finished(r) /\ RaisedOther(r) => Count(Frames(r), IsErrorEvent) = 0

C11_Witness ==
    \E r \in Live :
        /\ Finished(r) /\ RaisedException(r)
        /\ invoked[r] = <<Transport(r)>>
        /\ Len(acall[r]) = 1 /\ acall[r][1].state = "raised"
        /\ Count(Frames(r), IsErrorEvent) = 1

\* C12: the executor of a response built without a callback holds the JSON
\* streaming constructor bound to the chain when as_json is true and the
\* plain-text one when it is false; built with a callback it holds that
\* callback, whatever the flag; the callback an invocation constructs comes
\* from the constructor the executor holds.
C12_CallbackSelection ==
    \A r \in Live :
        LET a == args[r]
            selected == self[r].chain_executor.callback
        IN  /\ a.callback = NoCallback /\ a.as_json =>
                  selected = [fn |-> "get_streaming_json_callback", chain |-> a.chain]
            /\ a.callback = NoCallback /\ ~a.as_json =>
                  selected = [fn |-> "get_streaming_callback", chain |-> a.chain]
            /\ a.callback # NoCallback => selected = a.callback
            /\ callback[r] # NotBuilt =>
                  callback[r].fn = selected.fn /\ callback[r].chain = selected.chain

C12_Witness ==
    \E r \in Live :
        /\ args[r].as_json /\ args[r].callback = CustomCallback
        /\ callback[r].fn = "custom_callback"
        /\ Len(PushedFrames(r)) > 0

C14_ExecutorPropagates ==
    \A r \in Live :
        thrown[r] # NoException =>
            /\ outcome[r] = "raised" /\ error[r] = thrown[r]
            /\ Finished(r) =>
                  /\ Returned(r)
                  /\ Count(OwnFrames(r), IsErrorEvent) = 1
                  /\ Count(PushedFrames(r), IsErrorEvent) = 0

\* C14 (amended): an exception raised inside the executor, by the callback
\* constructor or by chain.acall, reaches stream_response as the same
\* exception and the executor swallows none; an instance of Exception is
\* handled in stream_response's except block, which alone sends the error
\* event; any other exception leaves stream_response too, with no error event;
\* no error event is ever sent by the callback or before the executor has
\* raised.
C14_ExecutorPropagatesToExcept ==
    \A r \in Live :
        /\ thrown[r] # NoException <=> outcome[r] = "raised"
        /\ error[r] = thrown[r]
        /\ acall[r] # <<>> /\ acall[r][1].state = "raised" =>
              thrown[r] = acall[r][1].raised /\ thrown[r] # NoException
        /\ acall[r] = <<>> /\ invoked[r] # <<>> => thrown[r] # NoException
        /\ Count(PushedFrames(r), IsErrorEvent) = 0
        /\ Count(Frames(r), IsErrorEvent) = Count(OwnFrames(r), IsErrorEvent)
        /\ Count(Frames(r), IsErrorEvent) > 0 => RaisedException(r)
        /\ Finished(r) /\ RaisedException(r) =>
              Returned(r) /\ Count(OwnFrames(r), IsErrorEvent) = 1
        /\ Finished(r) /\ RaisedOther(r) =>
              Escaped(r) /\ Count(Frames(r), IsErrorEvent) = 0

\* the callback constructor raised: chain.acall was never entered
C14_Witness ==
    \E r \in Live :
        /\ Finished(r) /\ RaisedException(r)
        /\ invoked[r] # <<>> /\ acall[r] = <<>>
        /\ error[r] = thrown[r]
        /\ Count(OwnFrames(r), IsErrorEvent) = 1

\* C15: once the executor has raised an instance of Exception, no exception
\* leaves stream_response: the call goes on to send the error event and the
\* terminating frame, each step being enabled, and ends by returning, as a call
\* whose executor returned does.
C15_FailureAbsorbed ==
    \A r \in Live :
        /\ RaisedException(r) =>
              /\ pc[r] \in {"error", "finish", "done"}
              /\ pc[r] = "error" => ENABLED SendErrorEvent(r)
              /\ pc[r] = "finish" =>
                    /\ ENABLED SendTerminator(r)
                    /\ IsErrorEventFrame(Frames(r)[Len(Frames(r))])
              /\ pc[r] = "done" =>
                    /\ IsErrorEventFrame(Frames(r)[Len(Frames(r)) - 1])
                    /\ IsTerminator(Frames(r)[Len(Frames(r))])
        /\ Escaped(r) => RaisedOther(r)
        /\ Finished(r) /\ (outcome[r] = "returned" \/ RaisedException(r)) => pc[r] = "done"

C15_Witness ==
    \E r \in Live :
        /\ pc[r] = "done"
        /\ RaisedException(r) /\ error[r] = [cls |-> "ValueError", msg |-> "bang"]
        /\ self[r].background.none
        /\ IsTerminator(Frames(r)[Len(Frames(r))])

\* the tokens the chain call of r has handed to its callback, in order
TokensOf(r) == IF acall[r] = <<>> THEN <<>> ELSE acall[r][1].tokens

\* the frames a call at this point has on its transport, told from the
\* request, the tokens and the way the executor ended, the background task
\* left aside
FramesExpected(r) ==
    (IF pc[r] = "start" THEN <<>>
     ELSE <<[type |-> "http.response.start",
             status |-> args[r].status_code,
             headers |-> args[r].raw_headers]>>)
    \o [i \in 1..Len(TokensOf(r)) |-> CallbackFrame(callback[r], TokensOf(r)[i])]
    \o (IF RaisedException(r) /\ pc[r] \in {"finish", "done"}
        THEN <<[type |-> "http.response.body",
                body |-> <<[name |-> "event", value |-> "error"],
                           [name |-> "data",
                            value |-> "{'status_code': 500, 'detail': 'Internal Server Error'}"]>>,
                more_body |-> TRUE]>>
        ELSE <<>>)
    \o (IF pc[r] = "done"
        THEN <<[type |-> "http.response.body", body |-> <<>>, more_body |-> FALSE]>>
        ELSE <<>>)

\* C16: the background task's keyword arguments differ from those it was
\* built with at `outputs` alone once the executor has returned, at `outputs`
\* and `error` alone once it has raised an instance of Exception, and nowhere
\* otherwise; an `error` keyword is not added on success; without a background
\* task there is none afterwards either; the frames on the transport are told
\* by the request, the tokens and the executor's end, with or without a
\* background task.
C16_OnlyOwnKeywords ==
    \A r \in Live :
        LET given == args[r].background
            now == self[r].background
        IN  /\ now.none = given.none
            /\ given.none => now = None
            /\ outcome[r] = "pending" \/ RaisedOther(r) => now = given
            /\ ~given.none /\ outcome[r] = "returned" =>
                  /\ DOMAIN now.kwargs = DOMAIN given.kwargs \cup {"outputs"}
                  /\ \A k \in DOMAIN given.kwargs \ {"outputs"} :
                        now.kwargs[k] = given.kwargs[k]
            /\ ~given.none /\ RaisedException(r) =>
                  /\ DOMAIN now.kwargs = DOMAIN given.kwargs \cup {"outputs", "error"}
                  /\ \A k \in DOMAIN given.kwargs \ {"outputs", "error"} :
                        now.kwargs[k] = given.kwargs[k]
            /\ self[r] = [Response(args[r]) EXCEPT !.background = now]
            /\ Frames(r) = FramesExpected(r)

C16_Witness ==
    \E r \in Live :
        /\ Returned(r) /\ outcome[r] = "returned"
        /\ DOMAIN args[r].background.kwargs = {"user", "outputs", "error"}
        /\ Kwargs(r)["error"] = [cls |-> "OldError", msg |-> "stale"]
        /\ Kwargs(r)["user"] = "bob"
        /\ Kwargs(r)["outputs"] = {<<"response", "bye">>}

\* the frames the callback of r makes of the chain's tokens, in their order
FramesOfTokens(r) ==
    [i \in 1..Len(TokensOf(r)) |-> CallbackFrame(callback[r], TokensOf(r)[i])]

\* C17 (as stated): once a call whose executor raised has ended, the frames on
\* its transport are the start frame, the frames of the tokens pushed before
\* the failure, all of them and in their order, the error event and the
\* terminating frame.
C17_FailureSequence ==
    \A r \in Live :
        Finished(r) /\ outcome[r] = "raised" =>
            Frames(r) = <<StartFrame(r)>> \o FramesOfTokens(r)
                        \o <<ErrorFrame, TerminatorFrame>>

\* C17 (amended): no step removes or reorders a frame already on a transport;
\* once a call whose executor raised an instance of Exception has ended, the
\* frames are the start frame, the frames of the tokens pushed before the
\* failure, all of them and in their order, the error event and the
\* terminating frame; after any other exception they are the start frame and
\* the pushed frames only.
C17_PushedFramesKept ==
    /\ [](\A r \in Live :
            /\ PushedFrames(r) = FramesOfTokens(r)
            /\ Finished(r) /\ RaisedException(r) =>
                  /\ Len(Frames(r)) = Len(TokensOf(r)) + 3
                  /\ IsStart(Frames(r)[1])
                  /\ SubSeq(Frames(r), 2, Len(TokensOf(r)) + 1) = FramesOfTokens(r)
                  /\ IsErrorEventFrame(Frames(r)[Len(TokensOf(r)) + 2])
                  /\ IsTerminator(Frames(r)[Len(TokensOf(r)) + 3])
            /\ Finished(r) /\ RaisedOther(r) =>
                  /\ Len(Frames(r)) = Len(TokensOf(r)) + 1
                  /\ IsStart(Frames(r)[1])
                  /\ SubSeq(Frames(r), 2, Len(TokensOf(r)) + 1) = FramesOfTokens(r))
    /\ [][\A t \in Resp :
            /\ Len(sent'[t]) >= Len(sent[t])
            /\ SubSeq(sent'[t], 1, Len(sent[t])) = sent[t]]_vars

C17_Witness ==
    \E r \in Live :
        /\ Finished(r) /\ RaisedException(r)
        /\ TokensOf(r) = <<"b", "a">>
        /\ Len(Frames(r)) = 5
        /\ Frames(r)[2].body[1].value \in {"b", "{'token': 'b'}"}
        /\ Frames(r)[3].body[1].value \in {"a", "{'token': 'a'}"}
        /\ IsErrorEventFrame(Frames(r)[4])

====
